---------------------------- MODULE Spec2Model ----------------------------
(***************************************************************************)
(* Model of CryptoDegenBot (agent.py): one scan issues four repository     *)
(* searches, scores every fetched project, appends the two static          *)
(* opportunity records, derives the trading signals, packages and returns. *)
(*                                                                         *)
(* Python text is a sequence of one-character strings, so that lower(),    *)
(* replace(), the substring test, the ISO timestamp parse and the integer  *)
(* formatting of the f-strings are computed, not assumed.  JSON null /     *)
(* Python None is the record Null; a text value t is Str(t).               *)
(***************************************************************************)
EXTENDS Integers, Sequences, FiniteSets, TLC

VARIABLES pc, now, requests, responses, projects, scored, opportunities,
          signals, package, returned, fault, arg, ret

vars == <<pc, now, requests, responses, projects, scored, opportunities,
          signals, package, returned, fault, arg, ret>>

-----------------------------------------------------------------------------
(* Bounds of the model *)

\* largest star count drawn when the scorer is checked on its own
MaxStars == 16
\* longest opportunity list drawn when the signal generator is checked alone
MaxOpps == 3
\* number of items in the longest search response
MaxItems == 6

-----------------------------------------------------------------------------
(* Program constants *)

RecencyDays == 30
RecencyBonus == 25
StarWeight == 2
PopularityCap == 30
KeywordBonus == 10
LanguageBonus == 15
ScoreCap == 100
GemThreshold == 80
PerQueryLimit == 5
HttpOk == 200
TargetFactor == 2
PotentialFactor == 1000

-----------------------------------------------------------------------------
(* Python values *)

Null == [none |-> TRUE]
Str(t) == [text |-> t]
IsNull(v) == v = Null

Ok(v) == [ok |-> TRUE, value |-> v]
Raise(e) == [ok |-> FALSE, error |-> e]

Min(a, b) == IF a < b THEN a ELSE b

-----------------------------------------------------------------------------
(* Text *)

UpperChars ==
    <<"A","B","C","D","E","F","G","H","I","J","K","L","M",
      "N","O","P","Q","R","S","T","U","V","W","X","Y","Z">>
LowerChars ==
    <<"a","b","c","d","e","f","g","h","i","j","k","l","m",
      "n","o","p","q","r","s","t","u","v","w","x","y","z">>
DigitChars == <<"0","1","2","3","4","5","6","7","8","9">>

LowerChar(c) ==
    IF \E i \in 1..Len(UpperChars) : UpperChars[i] = c
    THEN LowerChars[CHOOSE i \in 1..Len(UpperChars) : UpperChars[i] = c]
    ELSE c

\* str.lower()
Lower(s) == [i \in 1..Len(s) |-> LowerChar(s[i])]

\* kw in s
Contains(kw, s) ==
    \E i \in 1..(Len(s) - Len(kw) + 1) : SubSeq(s, i, i + Len(kw) - 1) = kw

RECURSIVE ReplaceZ(_)
\* s.replace('Z', '+00:00')
ReplaceZ(s) ==
    IF s = <<>> THEN <<>>
    ELSE (IF Head(s) = "Z" THEN <<"+","0","0",":","0","0">> ELSE <<Head(s)>>)
         \o ReplaceZ(Tail(s))

IsDigit(c) == \E i \in 1..10 : DigitChars[i] = c
DigitVal(c) == (CHOOSE i \in 1..10 : DigitChars[i] = c) - 1
AllDigits(s) == \A i \in 1..Len(s) : IsDigit(s[i])

RECURSIVE ParseInt(_)
\* int(s) of a run of decimal digits
ParseInt(s) ==
    IF s = <<>> THEN 0
    ELSE 10 * ParseInt(SubSeq(s, 1, Len(s) - 1)) + DigitVal(s[Len(s)])

RECURSIVE FormatNat(_)
FormatNat(n) ==
    IF n < 10 THEN <<DigitChars[n + 1]>>
    ELSE FormatNat(n \div 10) \o <<DigitChars[(n % 10) + 1]>>

\* str(n) as an f-string field formats it
FormatInt(n) == IF n < 0 THEN <<"-">> \o FormatNat(-n) ELSE FormatNat(n)

-----------------------------------------------------------------------------
(* Timestamps: datetime.fromisoformat and the subtraction of two datetimes. *)
(* An instant is a number of seconds since 2000-01-01T00:00:00 UTC.         *)

IsLeap(y) == (y % 4 = 0) /\ ((y % 100 # 0) \/ (y % 400 = 0))

DaysInMonth(y, m) ==
    IF m = 2 THEN (IF IsLeap(y) THEN 29 ELSE 28)
    ELSE IF m \in {4, 6, 9, 11} THEN 30 ELSE 31

RECURSIVE DaysBeforeMonth(_, _)
DaysBeforeMonth(y, m) ==
    IF m = 1 THEN 0 ELSE DaysBeforeMonth(y, m - 1) + DaysInMonth(y, m - 1)

DaysBeforeYear(y) ==
    365 * (y - 1) + ((y - 1) \div 4) - ((y - 1) \div 100) + ((y - 1) \div 400)

\* proleptic Gregorian ordinal, as date.toordinal()
Ordinal(y, m, d) == DaysBeforeYear(y) + DaysBeforeMonth(y, m) + d

Instant(y, m, d, hh, mm, ss) ==
    (Ordinal(y, m, d) - Ordinal(2000, 1, 1)) * (24 * 60 * 60)
    + hh * 3600 + mm * 60 + ss

\* the date part YYYY-MM-DD
DateShape(s) ==
    /\ Len(s) >= 10
    /\ AllDigits(SubSeq(s, 1, 4)) /\ s[5] = "-"
    /\ AllDigits(SubSeq(s, 6, 7)) /\ s[8] = "-"
    /\ AllDigits(SubSeq(s, 9, 10))

\* the time part HH:MM:SS at offset k
ClockShape(s, k) ==
    /\ Len(s) >= k + 7
    /\ AllDigits(SubSeq(s, k, k + 1)) /\ s[k + 2] = ":"
    /\ AllDigits(SubSeq(s, k + 3, k + 4)) /\ s[k + 5] = ":"
    /\ AllDigits(SubSeq(s, k + 6, k + 7))

\* the UTC offset +HH:MM or -HH:MM at offset k
OffsetShape(s, k) ==
    /\ Len(s) = k + 5
    /\ s[k] \in {"+", "-"}
    /\ AllDigits(SubSeq(s, k + 1, k + 2)) /\ s[k + 3] = ":"
    /\ AllDigits(SubSeq(s, k + 4, k + 5))

IsoShape(s) ==
    /\ DateShape(s)
    /\ \/ Len(s) = 10
       \/ Len(s) = 19 /\ ClockShape(s, 12)
       \/ Len(s) = 25 /\ ClockShape(s, 12) /\ OffsetShape(s, 20)

IsoYear(s) == ParseInt(SubSeq(s, 1, 4))
IsoMonth(s) == ParseInt(SubSeq(s, 6, 7))
IsoDay(s) == ParseInt(SubSeq(s, 9, 10))
IsoHour(s) == IF Len(s) > 10 THEN ParseInt(SubSeq(s, 12, 13)) ELSE 0
IsoMinute(s) == IF Len(s) > 10 THEN ParseInt(SubSeq(s, 15, 16)) ELSE 0
IsoSecond(s) == IF Len(s) > 10 THEN ParseInt(SubSeq(s, 18, 19)) ELSE 0
\* seconds east of UTC; a timestamp without offset is read in the host's
\* zone, which the model takes to be UTC
IsoOffset(s) ==
    IF Len(s) = 25
    THEN (IF s[20] = "-" THEN -1 ELSE 1)
         * (ParseInt(SubSeq(s, 21, 22)) * 3600 + ParseInt(SubSeq(s, 24, 25)) * 60)
    ELSE 0

IsoFields(s) ==
    /\ IsoYear(s) >= 1 /\ IsoMonth(s) \in 1..12
    /\ IsoDay(s) \in 1..DaysInMonth(IsoYear(s), IsoMonth(s))
    /\ IsoHour(s) \in 0..23 /\ IsoMinute(s) \in 0..59 /\ IsoSecond(s) \in 0..59
    /\ (Len(s) = 25 => ParseInt(SubSeq(s, 21, 22)) \in 0..23
                       /\ ParseInt(SubSeq(s, 24, 25)) \in 0..59)

\* datetime.fromisoformat(s): the instant, or ValueError
fromisoformat(s) ==
    IF IsoShape(s) /\ IsoFields(s)
    THEN Ok(Instant(IsoYear(s), IsoMonth(s), IsoDay(s),
                    IsoHour(s), IsoMinute(s), IsoSecond(s)) - IsoOffset(s))
    ELSE Raise("ValueError")

\* (t - created).days: timedelta normalises to 0 <= seconds < 86400, so the
\* day count is the floor of the difference
TimedeltaDays(t, created) ==
    LET d == t - created
    IN  IF d >= 0 THEN d \div (24 * 60 * 60)
        ELSE -((-d + (24 * 60 * 60) - 1) \div (24 * 60 * 60))

-----------------------------------------------------------------------------
(* Dictionaries *)

\* d.get(k, default)
DictGet(d, k, default) == IF k \in DOMAIN d THEN d[k] ELSE default

-----------------------------------------------------------------------------
(* Potential Scorer *)

high_value_keywords ==
    << <<"y","i","e","l","d">>,
       <<"f","a","r","m","i","n","g">>,
       <<"s","t","a","k","i","n","g">>,
       <<"l","i","q","u","i","d","i","t","y">>,
       <<"r","e","w","a","r","d","s">>,
       <<"a","p","y">> >>

\* if days_old < 30: score += 25
RecencyTerm(created_date, t) ==
    IF TimedeltaDays(t, created_date) < RecencyDays THEN RecencyBonus ELSE 0

\* score += min(project['stars'] * 2, 30)
StarTerm(stars) == Min(stars * StarWeight, PopularityCap)

RECURSIVE KeywordSum(_, _)
\* sum(10 for kw in kws if kw in desc)
KeywordSum(kws, desc) ==
    IF kws = <<>> THEN 0
    ELSE (IF Contains(Head(kws), desc) THEN KeywordBonus ELSE 0)
         + KeywordSum(Tail(kws), desc)

\* mutant: the description is searched without being lower-cased
keyword_score_nolower(description) == KeywordSum(high_value_keywords, description)

keyword_score(description) == KeywordSum(high_value_keywords, Lower(description))

\* if project.get('language') == 'Solidity': score += 15
LanguageTerm(project) ==
    IF DictGet(project, "language", Null) = Str("Solidity")
    THEN LanguageBonus ELSE 0

\* project.get('description', ''): the value under the key, None included
DescriptionOf(project) == DictGet(project, "description", Str(<<>>))

\* the local `score` just before the return statement
RawScore(project, created_date, t) ==
    RecencyTerm(created_date, t)
    + StarTerm(project.stars)
    + keyword_score(DescriptionOf(project).text)
    + LanguageTerm(project)

\* mutant: the raw sum is returned
Clamp_unclamped(score) == score

\* return min(score, 100)
Clamp(score) == Min(score, ScoreCap)

\* mutant: a timestamp that does not parse is swallowed and the project scores 0
analyze_defi_potential_swallow(project, t) ==
    IF IsNull(project.created) THEN Raise("AttributeError")
    ELSE LET created_date == fromisoformat(ReplaceZ(project.created.text))
         IN  IF ~created_date.ok THEN Ok(0)
             ELSE IF IsNull(DescriptionOf(project)) THEN Raise("AttributeError")
             ELSE Ok(Clamp(RawScore(project, created_date.value, t)))

\* analyze_defi_potential(project) with datetime.now() reading t: the score,
\* or the exception the first failing statement raises
analyze_defi_potential(project, t) ==
    IF IsNull(project.created) THEN Raise("AttributeError")
    ELSE LET created_date == fromisoformat(ReplaceZ(project.created.text))
         IN  IF ~created_date.ok THEN created_date
             ELSE IF IsNull(DescriptionOf(project)) THEN Raise("AttributeError")
             ELSE Ok(Clamp(RawScore(project, created_date.value, t)))

-----------------------------------------------------------------------------
(* Static Opportunity Generators *)

YieldPotential ==
    <<"$","5","0","0","0","+"," ","m","o","n","t","h","l","y"," ","y","i","e","l","d">>

ArbitragePotential ==
    <<"$","1","0","0","0","+"," ","p","e","r"," ","t","r","a","d","e">>

\* mutant: the yield generator returns nothing
find_yield_opportunities_none == <<>>

find_yield_opportunities ==
    << [type |-> "yield_farm", protocol |-> "New DeFi Protocol", apy |-> "150%+",
        risk |-> "Medium", potential |-> YieldPotential] >>

find_arbitrage_opportunities ==
    << [type |-> "arbitrage", pair |-> "ETH/USDC",
        exchanges |-> <<"Uniswap", "SushiSwap">>, profit_margin |-> "2.5%",
        potential |-> ArbitragePotential] >>

-----------------------------------------------------------------------------
(* Opportunities and signals *)

GainSuffix == <<"%"," ","g","a","i","n">>
PotentialSuffix == <<"+"," ","g","a","i","n">>

\* mutant: a score of exactly 80 passes
IsGem_inclusive(score) == score >= GemThreshold

\* if score > 80
IsGem(score) == score > GemThreshold

\* the defi_gem record appended for a project that scored above the threshold
DefiGem(project, score) ==
    [type |-> "defi_gem", project |-> project, score |-> score,
     potential |-> <<"$">> \o FormatInt(score * PotentialFactor) \o PotentialSuffix]

\* mutant: the target is the score itself
TargetText_unscaled(score) == FormatInt(score) \o GainSuffix

\* f"{opp['score'] * 2}% gain"
TargetText(score) == FormatInt(score * TargetFactor) \o GainSuffix

\* the signal appended for one defi_gem opportunity
SignalOf(opp) ==
    [signal |-> "BUY", asset |-> opp.project.name, confidence |-> opp.score,
     target |-> TargetText(opp.score), timeframe |-> "1-4 weeks"]

\* if opp['type'] == 'defi_gem'
EmitsSignal(opp) == opp.type = "defi_gem"

RECURSIVE generate_trading_signals_break(_)
\* mutant: the loop ends at the first opportunity that is no defi_gem
generate_trading_signals_break(opps) ==
    IF opps = <<>> \/ ~EmitsSignal(Head(opps)) THEN <<>>
    ELSE <<SignalOf(Head(opps))>> \o generate_trading_signals_break(Tail(opps))

RECURSIVE generate_trading_signals(_)
generate_trading_signals(opps) ==
    IF opps = <<>> THEN <<>>
    ELSE (IF EmitsSignal(Head(opps)) THEN <<SignalOf(Head(opps))>> ELSE <<>>)
         \o generate_trading_signals(Tail(opps))

\* the dict package_crypto_intelligence builds; generated_at is kept as the
\* instant the clock showed
package_crypto_intelligence(opps, sigs, t) ==
    [opportunities |-> opps, signals |-> sigs, generated_at |-> t,
     value_proposition |-> "Early DeFi gems and yield opportunities",
     pricing |-> [basic_signals |-> "$99/month", premium_intel |-> "$299/month",
                  vip_access |-> "$999/month"],
     target_market |-> "Crypto traders, DeFi investors, Yield farmers"]

-----------------------------------------------------------------------------
(* Repository Search *)

search_queries ==
    <<"defi protocol created:>2024-01-01 language:Solidity",
      "yield farming created:>2024-01-01 stars:>5",
      "dex amm created:>2024-01-01",
      "liquidity pool created:>2024-01-01">>

\* mutant: every 2xx status is taken for success
search_repos_any2xx(response) ==
    IF response.status_code \in 200..299
    THEN DictGet(response.json, "items", <<>>)
    ELSE <<>>

\* search_repos(query), given the response the GET came back with
search_repos(response) ==
    IF response.status_code = HttpOk
    THEN DictGet(response.json, "items", <<>>)
    ELSE <<>>

\* mutant: no truncation
FirstItems_all(repos) == repos

\* repos[:5]
FirstItems(repos) == SubSeq(repos, 1, Min(Len(repos), PerQueryLimit))

\* the dict appended to projects for one result item
ProjectOf(repo) ==
    [name |-> repo.name, url |-> repo.html_url, description |-> repo.description,
     stars |-> repo.stargazers_count, language |-> repo.language,
     created |-> repo.created_at]

\* the projects one response contributes
ProjectsOf(response) ==
    LET kept == FirstItems(search_repos(response))
    IN  [i \in 1..Len(kept) |-> ProjectOf(kept[i])]

-----------------------------------------------------------------------------
(* Inputs: descriptions, timestamps, clock readings *)

DescExample ==
    <<"N","e","w"," ","y","i","e","l","d"," ","f","a","r","m","i","n","g"," ","p","r",
      "o","t","o","c","o","l"," ","w","i","t","h"," ","h","i","g","h"," ","A","P",
      "Y"," ","s","t","a","k","i","n","g"," ","r","e","w","a","r","d","s">>

DescAllSix ==
    <<"Y","i","e","l","d"," ","f","a","r","m","i","n","g",","," ","s","t","a","k","i",
      "n","g"," ","&"," ","l","i","q","u","i","d","i","t","y"," ","r","e","w","a",
      "r","d","s",":"," ","2","0","%"," ","A","P","Y">>

DescHappy ==
    <<"H","a","p","p","y"," ","p","a","t","h"," ","r","o","u","t","e","r">>

DescUpper ==
    <<"L","I","Q","U","I","D","I","T","Y"," ","P","O","O","L">>

DescPlain ==
    <<"A"," ","D","E","X"," ","a","g","g","r","e","g","a","t","o","r">>

DescBroken ==
    <<"y","i","e","l"," ","d"," ","f","a","r","m"," ","i","n","g">>

DescLiquidity ==
    <<"L","i","q","u","i","d","i","t","y"," ","p","o","o","l","s"," ","f","o","r"," ",
      "e","v","e","r","y","o","n","e">>

DescYieldStaking ==
    <<"Y","i","e","l","d"," ","s","t","a","k","i","n","g"," ","v","a","u","l","t","s">>

TsToday ==
    <<"2","0","2","6","-","1","1","-","0","3","T","0","8",":","0","0",":","0","0","Z">>

TsDay29 ==
    <<"2","0","2","6","-","1","0","-","0","4","T","1","2",":","0","0",":","0","1","Z">>

TsDay30 ==
    <<"2","0","2","6","-","1","0","-","0","4","T","1","2",":","0","0",":","0","0","Z">>

TsTwoYears ==
    <<"2","0","2","4","-","1","1","-","0","3","T","1","2",":","0","0",":","0","0","Z">>

TsTomorrow ==
    <<"2","0","2","6","-","1","1","-","0","4","T","1","8",":","3","0",":","0","0","Z">>

TsOffset ==
    <<"2","0","2","6","-","1","0","-","0","4","T","1","4",":","0","0",":","0","1","+",
      "0","2",":","0","0">>

TsNotADate ==
    <<"n","o","t","-","a","-","d","a","t","e">>

TsMonth13 ==
    <<"2","0","2","6","-","1","3","-","0","1","T","0","0",":","0","0",":","0","0","Z">>

TsFeb30 ==
    <<"2","0","2","6","-","0","2","-","3","0","T","0","0",":","0","0",":","0","0","Z">>

Descriptions ==
    {<<>>, DescExample, DescAllSix, DescHappy, DescUpper, DescPlain, DescBroken}

WellFormedTimestamps ==
    {TsToday, TsDay29, TsDay30, TsTwoYears, TsTomorrow, TsOffset}

MalformedTimestamps == {<<>>, TsNotADate, TsMonth13, TsFeb30}

Languages == {Str("Solidity"), Str("solidity"), Str("Rust"), Null}

\* the clock readings of a run: noon of 2026-11-03 UTC and one second later
Noon == Instant(2026, 11, 3, 12, 0, 0)
NowSet == {Noon, Noon + 1}

\* a later reading of the clock is never earlier than the one before
ClockAfter(t) == {u \in NowSet : u >= t}

-----------------------------------------------------------------------------
(* Inputs: search results *)

Repo(name, stars, description, language, created_at) ==
    [id |-> name, name |-> name, html_url |-> name,
     description |-> description, stargazers_count |-> stars,
     language |-> language, created_at |-> created_at]

\* scores 100
RepoGem == Repo("yield-vault", 50, Str(DescExample), Str("Solidity"), Str(TsToday))
\* scores 90 while younger than 30 days, 65 from then on
RepoYoung == Repo("stake-hub", 20, Str(DescYieldStaking), Str("Solidity"), Str(TsDay29))
\* scores exactly 80
RepoEdge == Repo("pool-kit", 15, Str(DescLiquidity), Str("Solidity"), Str(TsToday))
\* scores 16
RepoLow == Repo("dex-router", 3, Str(DescHappy), Str("TypeScript"), Str(TsTwoYears))
\* the API sent "description": null
RepoNoDesc == Repo("old-chain", 0, Null, Str("Rust"), Str(TsTwoYears))
\* malformed created_at
RepoBadTs == Repo("broken-ts", 9, Str(DescPlain), Str("Solidity"), Str(TsNotADate))

GoodRepos == <<RepoGem, RepoLow, RepoEdge, RepoYoung>>

\* a response listing MaxItems items
LongItems == [i \in 1..MaxItems |-> GoodRepos[((i - 1) % Len(GoodRepos)) + 1]]

Found(items) == [status_code |-> HttpOk, json |-> [total_count |-> Len(items), items |-> items]]

Responses ==
    { Found(<<>>), Found(<<RepoEdge, RepoYoung>>),
      Found(<<RepoLow, RepoNoDesc>>), Found(<<RepoYoung, RepoBadTs, RepoGem>>),
      Found(LongItems),
      [status_code |-> HttpOk, json |-> [total_count |-> 0]],
      [status_code |-> 403, json |-> [message |-> "API rate limit exceeded"]],
      [status_code |-> 202, json |-> [total_count |-> 1, items |-> <<RepoGem>>]] }

-----------------------------------------------------------------------------
(* The scan: scan_for_crypto_opportunities, one step per request, per scored *)
(* project and per later statement                                          *)

Init ==
    /\ pc = "search"
    /\ now \in NowSet
    /\ requests = <<>>
    /\ responses = <<>>
    /\ projects = <<>>
    /\ scored = <<>>
    /\ opportunities = <<>>
    /\ signals = <<>>
    /\ package = Null
    /\ returned = Null
    /\ fault = Null
    /\ arg = Null
    /\ ret = Null

\* one turn of the loop of find_new_defi_projects: the GET of the next query
\* and the append of its first items
find_new_defi_projects ==
    /\ pc = "search"
    /\ Len(requests) < Len(search_queries)
    /\ \E response \in Responses :
         /\ requests' = Append(requests, search_queries[Len(requests) + 1])
         /\ responses' = Append(responses, response)
         /\ projects' = projects \o ProjectsOf(response)
         /\ pc' = IF Len(requests') < Len(search_queries) THEN "search"
                  ELSE IF projects' = <<>> THEN "yield" ELSE "score"
    /\ UNCHANGED <<now, scored, opportunities, signals, package, returned,
                   fault, arg, ret>>

\* one turn of the scoring loop: score the next project and keep it if it is
\* a gem; an exception leaves the scan
ScoreProject ==
    /\ pc = "score"
    /\ Len(scored) < Len(projects)
    /\ \E t \in ClockAfter(now) :
         LET project == projects[Len(scored) + 1]
             result == analyze_defi_potential(project, t)
         IN  /\ now' = t
             /\ IF result.ok
                THEN /\ scored' = Append(scored, result.value)
                     /\ opportunities' =
                          IF IsGem(result.value)
                          THEN Append(opportunities, DefiGem(project, result.value))
                          ELSE opportunities
                     /\ pc' = IF Len(scored') < Len(projects) THEN "score" ELSE "yield"
                     /\ fault' = fault
                ELSE /\ pc' = "error"
                     /\ fault' = Str(result.error)
                     /\ UNCHANGED <<scored, opportunities>>
    /\ UNCHANGED <<requests, responses, projects, signals, package, returned,
                   arg, ret>>

\* opportunities.extend(self.find_yield_opportunities())
ExtendYield ==
    /\ pc = "yield"
    /\ opportunities' = opportunities \o find_yield_opportunities
    /\ pc' = "arbitrage"
    /\ UNCHANGED <<now, requests, responses, projects, scored, signals, package,
                   returned, fault, arg, ret>>

\* opportunities.extend(self.find_arbitrage_opportunities())
ExtendArbitrage ==
    /\ pc = "arbitrage"
    /\ opportunities' = opportunities \o find_arbitrage_opportunities
    /\ pc' = "signals"
    /\ UNCHANGED <<now, requests, responses, projects, scored, signals, package,
                   returned, fault, arg, ret>>

\* signals = self.generate_trading_signals(opportunities)
GenerateSignals ==
    /\ pc = "signals"
    /\ signals' = generate_trading_signals(opportunities)
    /\ pc' = "package"
    /\ UNCHANGED <<now, requests, responses, projects, scored, opportunities,
                   package, returned, fault, arg, ret>>

\* self.package_crypto_intelligence(opportunities, signals)
Package ==
    /\ pc = "package"
    /\ \E t \in ClockAfter(now) :
         /\ now' = t
         /\ package' = package_crypto_intelligence(opportunities, signals, t)
    /\ pc' = "return"
    /\ UNCHANGED <<requests, responses, projects, scored, opportunities, signals,
                   returned, fault, arg, ret>>

\* return opportunities
Return ==
    /\ pc = "return"
    /\ returned' = opportunities
    /\ pc' = "done"
    /\ UNCHANGED <<now, requests, responses, projects, scored, opportunities,
                   signals, package, fault, arg, ret>>

Next ==
    \/ find_new_defi_projects
    \/ ScoreProject
    \/ ExtendYield
    \/ ExtendArbitrage
    \/ GenerateSignals
    \/ Package
    \/ Return

Spec == Init /\ [][Next]_vars

-----------------------------------------------------------------------------
(* The Potential Scorer on its own: one call of analyze_defi_potential on a  *)
(* project record drawn from ScoreInputs, at a clock reading of NowSet       *)

StarCounts == (0..MaxStars) \cup {50}

ScoreInputs ==
    { [name |-> "candidate", url |-> "https://example.test/candidate",
       description |-> d, stars |-> s, language |-> l, created |-> Str(c)] :
        d \in {Str(x) : x \in Descriptions} \cup {Null},
        s \in StarCounts,
        l \in Languages,
        c \in WellFormedTimestamps \cup MalformedTimestamps }
    \cup
    \* dicts built by a caller that leaves the optional keys out
    { [name |-> "bare", url |-> "https://example.test/bare",
       stars |-> s, created |-> Str(c)] :
        s \in StarCounts, c \in WellFormedTimestamps \cup MalformedTimestamps }

InitScore ==
    /\ pc = "analyze"
    /\ now \in NowSet
    /\ arg \in ScoreInputs
    /\ ret = Null
    /\ requests = <<>>
    /\ responses = <<>>
    /\ projects = <<>>
    /\ scored = <<>>
    /\ opportunities = <<>>
    /\ signals = <<>>
    /\ package = Null
    /\ returned = Null
    /\ fault = Null

CallAnalyze ==
    /\ pc = "analyze"
    /\ ret' = analyze_defi_potential(arg, now)
    /\ pc' = "analyzed"
    /\ UNCHANGED <<now, requests, responses, projects, scored, opportunities,
                   signals, package, returned, fault, arg>>

NextScore == CallAnalyze

SpecScore == InitScore /\ [][NextScore]_vars

-----------------------------------------------------------------------------
(* The Signal Generator on its own: one call of generate_trading_signals on  *)
(* an opportunity list of at most MaxOpps entries                            *)

SampleScores == {0, 7, 80, 95, 100}

OpportunityPool ==
    { DefiGem(ProjectOf(r), s) : r \in {RepoGem, RepoLow}, s \in SampleScores }
    \cup { find_yield_opportunities[1], find_arbitrage_opportunities[1] }

OpportunityLists ==
    UNION { [1..n -> OpportunityPool] : n \in 0..MaxOpps }

InitSignals ==
    /\ pc = "derive"
    /\ now \in NowSet
    /\ arg \in OpportunityLists
    /\ ret = Null
    /\ requests = <<>>
    /\ responses = <<>>
    /\ projects = <<>>
    /\ scored = <<>>
    /\ opportunities = <<>>
    /\ signals = <<>>
    /\ package = Null
    /\ returned = Null
    /\ fault = Null

CallGenerateSignals ==
    /\ pc = "derive"
    /\ ret' = generate_trading_signals(arg)
    /\ pc' = "derived"
    /\ UNCHANGED <<now, requests, responses, projects, scored, opportunities,
                   signals, package, returned, fault, arg>>

NextSignals == CallGenerateSignals

SpecSignals == InitSignals /\ [][NextSignals]_vars

-----------------------------------------------------------------------------
(* Reference values the scorer is compared with *)

\* the instant each well-formed timestamp of the inputs denotes
CreatedInstant(ts) ==
    CASE ts = TsToday -> Instant(2026, 11, 3, 8, 0, 0)
      [] ts = TsDay29 -> Instant(2026, 10, 4, 12, 0, 1)
      [] ts = TsDay30 -> Instant(2026, 10, 4, 12, 0, 0)
      [] ts = TsTwoYears -> Instant(2024, 11, 3, 12, 0, 0)
      [] ts = TsTomorrow -> Instant(2026, 11, 4, 18, 30, 0)
      [] ts = TsOffset -> Instant(2026, 10, 4, 12, 0, 1)

\* the age in whole days: the elapsed seconds divided by 86400, rounded down
AgeInWholeDays(ts, t) == (t - CreatedInstant(ts)) \div 86400

KeywordSet == {high_value_keywords[i] : i \in 1..Len(high_value_keywords)}

RefDescription(p) == IF "description" \in DOMAIN p THEN p.description.text ELSE <<>>

RefRaw(p, t) ==
    (IF AgeInWholeDays(p.created.text, t) < 30 THEN 25 ELSE 0)
    + Min(2 * p.stars, 30)
    + 10 * Cardinality({kw \in KeywordSet : Contains(kw, Lower(RefDescription(p)))})
    + (IF "language" \in DOMAIN p /\ p.language = Str("Solidity") THEN 15 ELSE 0)

RefScore(p, t) == Min(100, RefRaw(p, t))

\* non-negative stars, a description text (or none given at all) and a
\* well-formed creation timestamp
WellFormedInput(p) ==
    /\ p.stars >= 0
    /\ p.created.text \in WellFormedTimestamps
    /\ ("description" \in DOMAIN p => p.description # Null)

\* the repository of the worked example: created today, 50 stars, Solidity
IsExampleGem(p) ==
    /\ "description" \in DOMAIN p /\ p.description = Str(DescExample)
    /\ "language" \in DOMAIN p /\ p.language = Str("Solidity")
    /\ p.stars = 50 /\ p.created = Str(TsToday)

\* created two years ago, 0 stars, description null, language Rust
IsOldRustNoDescription(p) ==
    /\ "description" \in DOMAIN p /\ p.description = Null
    /\ "language" \in DOMAIN p /\ p.language = Str("Rust")
    /\ p.stars = 0 /\ p.created = Str(TsTwoYears)

-----------------------------------------------------------------------------
(* Claims about the Potential Scorer, under SpecScore *)

\* C1: for every record with non-negative stars, a description text, any
\* language and a well-formed creation timestamp, analyze_defi_potential
\* returns an integer score with 0 <= score <= 100.
C1_ScoreWithinBounds ==
    (pc = "analyzed" /\ WellFormedInput(arg))
        => (ret.ok /\ ret.value \in 0..100)

\* C1 witness: a well-formed record whose raw sum exceeds 100 was scored 100.
C1_ClampedWitness ==
    /\ pc = "analyzed" /\ WellFormedInput(arg)
    /\ RefRaw(arg, now) > 100
    /\ ret = Ok(100)

\* C2: the score equals min(100, R + P + K + L) with R = 25 iff the age in
\* whole days is below 30, P = min(2*stars, 30), K = 10 per keyword found in
\* the lower-cased description, L = 15 iff the language is exactly Solidity;
\* the worked example has raw sum 120 and score 100.
C2_ScoreEqualsReference ==
    (pc = "analyzed" /\ WellFormedInput(arg))
        => /\ ret = Ok(RefScore(arg, now))
           /\ IsExampleGem(arg) => (RefRaw(arg, now) = 120 /\ ret = Ok(100))

\* C2 witness: the worked example has been scored.
C2_ExampleWitness ==
    /\ pc = "analyzed" /\ IsExampleGem(arg)
    /\ ret = Ok(100)

\* C3: a repository whose description is null is scored as if the description
\* were the empty string: scoring completes with keyword term 0, and the
\* two-year-old, 0-star, Rust repository without description scores 0.
C3_NullDescriptionScoredAsEmpty ==
    (/\ pc = "analyzed"
     /\ "description" \in DOMAIN arg /\ arg.description = Null
     /\ arg.stars >= 0 /\ arg.created.text \in WellFormedTimestamps)
        => /\ ret = Ok(RefScore([arg EXCEPT !.description = Str(<<>>)], now))
           /\ IsOldRustNoDescription(arg) => ret = Ok(0)

-----------------------------------------------------------------------------
(* Claims about the Signal Generator, under SpecSignals *)

GemsOf(opps) == SelectSeq(opps, LAMBDA o : o.type = "defi_gem")

\* the length of the run of decimal digits a text starts with
DigitPrefixLen(s) ==
    CHOOSE n \in 0..Len(s) :
        /\ \A i \in 1..n : IsDigit(s[i])
        /\ (n < Len(s) => ~IsDigit(s[n + 1]))

NumericPart(s) == ParseInt(SubSeq(s, 1, DigitPrefixLen(s)))
AfterNumericPart(s) == SubSeq(s, DigitPrefixLen(s) + 1, Len(s))

\* C4: generate_trading_signals emits exactly one signal per defi_gem entry and
\* none for yield_farm or arbitrage entries, and the i-th signal belongs to the
\* i-th defi_gem entry in input order.
C4_OneSignalPerGem ==
    pc = "derived" =>
        /\ Len(ret) = Cardinality({i \in 1..Len(arg) : arg[i].type = "defi_gem"})
        /\ \A i \in 1..Len(ret) :
              /\ ret[i].asset = GemsOf(arg)[i].project.name
              /\ ret[i].confidence = GemsOf(arg)[i].score

\* C4 witness: two different gems with a static record between them gave two
\* signals.
C4_MixedListWitness ==
    /\ pc = "derived" /\ Len(arg) = 3
    /\ arg[1].type = "defi_gem" /\ arg[2].type = "yield_farm"
    /\ arg[3].type = "defi_gem" /\ arg[1] # arg[3]
    /\ Len(ret) = 2 /\ ret[1] # ret[2]

\* C5: every signal has action BUY, the project's name as asset, the score as
\* confidence, timeframe "1-4 weeks" and a target "<2*score>% gain"; score 80
\* gives "160% gain".
C5_SignalFields ==
    pc = "derived" =>
        \A i \in 1..Len(ret) :
            LET gem == GemsOf(arg)[i]
            IN  /\ ret[i].signal = "BUY"
                /\ ret[i].asset = gem.project.name
                /\ ret[i].confidence = gem.score
                /\ ret[i].timeframe = "1-4 weeks"
                /\ NumericPart(ret[i].target) = 2 * gem.score
                /\ AfterNumericPart(ret[i].target) = <<"%"," ","g","a","i","n">>
                /\ gem.score = 80 =>
                     ret[i].target = <<"1","6","0","%"," ","g","a","i","n">>

\* C5 witness: a gem of score 80 got the target "160% gain".
C5_Score80Witness ==
    /\ pc = "derived"
    /\ \E i \in 1..Len(ret) :
          /\ ret[i].confidence = 80
          /\ ret[i].target = <<"1","6","0","%"," ","g","a","i","n">>

-----------------------------------------------------------------------------
(* Claims about the scan, under Spec *)

\* the result items of a response that answered 200
ItemsAnswered(response) ==
    IF response.status_code = 200 /\ "items" \in DOMAIN response.json
    THEN response.json.items
    ELSE <<>>

\* how many items of a response are kept
KeptCount(response) == Min(5, Len(ItemsAnswered(response)))

RECURSIVE KeptBefore(_, _)
\* how many projects the responses before the k-th contributed
KeptBefore(rs, k) ==
    IF k <= 1 THEN 0 ELSE KeptBefore(rs, k - 1) + KeptCount(rs[k - 1])

Projected(item) ==
    [name |-> item.name, url |-> item.html_url, description |-> item.description,
     stars |-> item.stargazers_count, language |-> item.language,
     created |-> item.created_at]

RECURSIVE CollectedFrom(_)
\* the projects of the responses that answered 200, in request order
CollectedFrom(rs) ==
    IF rs = <<>> THEN <<>>
    ELSE CollectedFrom(SubSeq(rs, 1, Len(rs) - 1))
         \o [j \in 1..KeptCount(rs[Len(rs)]) |->
                Projected(ItemsAnswered(rs[Len(rs)])[j])]

\* C6: a non-200 response gives an empty list and no error; the scan goes on
\* to the remaining queries, so all four requests are made and the projects
\* collected are exactly those of the queries that answered 200.
C6_FailedQueriesYieldNothing ==
    /\ Len(responses) = Len(requests)
    /\ (pc = "search" => fault = Null)
    /\ (pc # "search" => requests = search_queries)
    /\ projects = CollectedFrom(responses)

\* C6 witness: the first and third query failed, the second and fourth
\* answered 200 with items, and the search is over.
C6_MixedOutcomesWitness ==
    /\ pc # "search" /\ Len(responses) = 4
    /\ responses[1].status_code = 403 /\ responses[3].status_code = 202
    /\ KeptCount(responses[2]) > 0 /\ KeptCount(responses[4]) > 0
    /\ Len(projects) = KeptCount(responses[2]) + KeptCount(responses[4])

\* C7: after a completed scan the number of opportunities packaged and
\* returned is the number of fetched projects scoring strictly above 80,
\* plus 1 yield and 1 arbitrage record; a score of exactly 80 does not count.
C7_OpportunityCount ==
    pc = "done" =>
        /\ Len(scored) = Len(projects)
        /\ Len(returned) =
              Cardinality({i \in 1..Len(scored) : scored[i] > 80}) + 1 + 1
        /\ Len(package.opportunities) = Len(returned)

\* C7 witness: a completed scan that scored one project exactly 80 and another
\* above 80.
C7_Exactly80Witness ==
    /\ pc = "done"
    /\ \E i \in 1..Len(scored) : scored[i] = 80
    /\ \E i \in 1..Len(scored) : scored[i] > 80
    /\ Len(returned) < Len(projects) + 2

\* C8: the four queries are requested one after the other in the fixed order,
\* only the first 5 items of each response are kept in response order, the
\* project list never exceeds 20 entries and holds the items of query k
\* before those of query k+1.
C8_FourQueriesFirstFive ==
    /\ Len(requests) <= 4
    /\ requests = SubSeq(search_queries, 1, Len(requests))
    /\ (pc # "search" => Len(requests) = 4)
    /\ Len(projects) <= 20
    /\ Len(projects) = KeptBefore(responses, Len(responses) + 1)
    /\ \A k \in 1..Len(responses) :
          \A j \in 1..KeptCount(responses[k]) :
              LET project == projects[KeptBefore(responses, k) + j]
                  item == ItemsAnswered(responses[k])[j]
              IN  /\ project.name = item.name
                  /\ project.stars = item.stargazers_count
                  /\ project.created = item.created_at

\* C8 witness: four responses of more than 5 items each gave 20 projects.
C8_TruncationWitness ==
    /\ pc # "search"
    /\ \A k \in 1..4 : Len(ItemsAnswered(responses[k])) > 5
    /\ Len(projects) = 20

\* the fetched projects whose creation timestamp is malformed
MalformedProjects ==
    {i \in 1..Len(projects) : projects[i].created.text \in MalformedTimestamps}

\* C9: scoring a project with a malformed creation timestamp raises an
\* exception nothing handles: the scan ends in the error state, with no
\* signals, no package and nothing returned, whatever was scored before.
C9_MalformedTimestampAborts ==
    /\ \A i \in MalformedProjects : Len(scored) < i
    /\ MalformedProjects # {} =>
          /\ pc \in {"search", "score", "error"}
          /\ signals = <<>> /\ package = Null /\ returned = Null
    /\ (pc = "error" /\ Len(scored) + 1 \in MalformedProjects) =>
          fault = Str("ValueError")
    /\ (pc = "error" => ~ENABLED Next)

\* C9 witness: the scan ended with ValueError after an earlier project had
\* been scored and kept as a gem.
C9_AbortAfterGemWitness ==
    /\ pc = "error" /\ fault = Str("ValueError")
    /\ Len(scored) >= 1 /\ opportunities # <<>>
    /\ Len(scored) + 1 \in MalformedProjects

\* the indices of the projects scored above 80, ascending
GemIndices ==
    SelectSeq([i \in 1..Len(scored) |-> i], LAMBDA i : scored[i] > 80)

\* C10: the list a completed scan returns is zero or more defi_gem entries in
\* fetch order, each with a score in 81..100, then the one yield_farm record,
\* then the one arbitrage record; it is never empty, and when every search
\* fails it is just the two static records and there is no signal.
C10_ReturnedShape ==
    pc = "done" =>
        LET n == Len(returned)
        IN  /\ n >= 2
            /\ n = Len(GemIndices) + 2
            /\ returned[n - 1].type = "yield_farm"
            /\ returned[n - 1].protocol = "New DeFi Protocol"
            /\ returned[n].type = "arbitrage"
            /\ returned[n].pair = "ETH/USDC"
            /\ \A i \in 1..(n - 2) :
                  /\ returned[i].type = "defi_gem"
                  /\ returned[i].score \in 81..100
                  /\ returned[i].score = scored[GemIndices[i]]
                  /\ returned[i].project = projects[GemIndices[i]]
            /\ (\A k \in 1..Len(responses) : responses[k].status_code # 200)
                  => (n = 2 /\ signals = <<>>)

\* C10 witness: a completed scan returned two gems that were not adjacent in
\* the fetched list, followed by the two static records.
C10_GemsThenStaticWitness ==
    /\ pc = "done" /\ Len(returned) >= 4
    /\ Len(GemIndices) >= 2 /\ GemIndices[2] > GemIndices[1] + 1

=============================================================================
